---------------------------- MODULE Spec2Model ----------------------------
(***************************************************************************)
(* Model of src/lib/src/http/header.rs: Header and HeaderMap.              *)
(*                                                                         *)
(* A HeaderMap is a HashMap from a header name to a Vec of values.  The    *)
(* HashMap is modelled as a function whose DOMAIN is the set of stored     *)
(* keys; a Vec is a sequence.  An Option is a sequence of length 0 (None)  *)
(* or 1 (Some).  The iteration order of the HashMap is unspecified: every  *)
(* operation whose result depends on it takes the order as an argument,    *)
(* and the actions choose it nondeterministically.                         *)
(***************************************************************************)
EXTENDS Integers, Sequences, FiniteSets, TLC

\* ------------------------------------------------------------ bounds ----

\* Longest value vector a single name may hold in the explored states.
MaxLen == 3

\* Longest vector handed to replace_all / add_all.
MaxIn == 2

\* Header names; two of them differ only in letter case.
Names == {"X-Custom", "x-custom"}

\* Header values.
Values == {"value_1", "value_2"}

\* Longest header name and longest header value that are formatted.
MaxText == 2

\* The characters of the formatted names and values: letters of both cases,
\* the separator characters of the rendering and a character that wire
\* formats escape.
Chars == {"a", "A", ":", " ", "%"}

\* All texts (sequences of characters) of length at most n.
TextsUpTo(n) == UNION {[1..k -> Chars] : k \in 0..n}

\* All vectors of values of length at most n.
VecsUpTo(n) == UNION {[1..k -> Values] : k \in 0..n}

\* ------------------------------------------------------------ Option ----

None == <<>>

Some(v) == <<v>>

is_some(o) == o # None

\* ------------------------------------------------------------ Header ----

\* Header::new: the two conversions into Cow keep the text as it is.
HeaderNew(name, value) == [name |-> name, value |-> value]

\* impl Display for Header: write!(f, "{}: {}", self.name, self.value), on
\* texts as sequences of characters.
fmt_NoSpace(h) == h.name \o <<":">> \o h.value

fmt(h) == h.name \o <<":", " ">> \o h.value

\* ToString::to_string, which formats with Display.
to_string(h) == fmt(h)

\* ----------------------------------------------------------- HashMap ----

\* HashMap::new
HashMapNew == [k \in {} |-> <<>>]

\* HashMap::get: the stored vector, if the key is stored.
HashMapGet(m, k) == IF k \in DOMAIN m THEN Some(m[k]) ELSE None

\* HashMap::insert: the map with k bound to v (the old binding is returned
\* by HashMapGet on the map before).
HashMapInsert(m, k, v) == [x \in (DOMAIN m) \cup {k} |-> IF x = k THEN v ELSE m[x]]

\* HashMap::remove
HashMapRemove(m, k) == [x \in (DOMAIN m) \ {k} |-> m[x]]

\* HashMap::entry(k).or_insert(vec![]): the map in which k is stored, with
\* an empty vector when it was not.
EntryOrInsert(m, k) == IF k \in DOMAIN m THEN m ELSE HashMapInsert(m, k, <<>>)

\* The orders in which a HashMap with key set S may be iterated.
Orders(S) == {o \in [1..Cardinality(S) -> S] : \A i, j \in 1..Cardinality(S) : o[i] = o[j] => i = j}

\* --------------------------------------------------- HeaderMap queries --

\* HeaderMap::contains
contains(h, name) == is_some(HashMapGet(h, name))

\* flat_map over the entries in iteration order, yielding one Header per
\* value (the closures of iter and into_iter).
RECURSIVE flat_map(_, _)
flat_map(h, order) ==
    IF order = <<>> THEN <<>>
    ELSE LET key == Head(order)
             values == h[key]
         IN  [i \in 1..Len(values) |-> HeaderNew(key, values[i])] \o flat_map(h, Tail(order))

\* HeaderMap::iter, for one iteration order of the HashMap.
iter_FirstOnly(h, order) ==
    flat_map([n \in DOMAIN h |-> IF h[n] = <<>> THEN <<>> ELSE <<h[n][1]>>], order)

iter(h, order) == flat_map(h, order)

\* HeaderMap::into_iter, for one iteration order of the HashMap.
into_iter(h, order) == flat_map(h, order)

\* HeaderMap::len: the number of items of the flattened iteration.
len_Keys(h) == Cardinality(DOMAIN h)

len(h) == Len(flat_map(h, CHOOSE o \in Orders(DOMAIN h) : TRUE))

\* HeaderMap::is_empty
is_empty(h) == DOMAIN h = {}

\* HeaderMap::get
get(h, name) ==
    LET found == HashMapGet(h, name)
    IN  IF is_some(found) THEN found[1] ELSE <<>>

\* HeaderMap::get_one
get_one_Last(h, name) ==
    LET found == HashMapGet(h, name)
    IN  IF is_some(found) /\ Len(found[1]) >= 1 THEN Some(found[1][Len(found[1])]) ELSE None

get_one(h, name) ==
    LET found == HashMapGet(h, name)
    IN  IF is_some(found) /\ Len(found[1]) >= 1 THEN Some(found[1][1]) ELSE None

\* ------------------------------------------------- HeaderMap mutations --

\* HeaderMap::replace: the map after the call and the returned boolean.
replace_Append(h, header) ==
    [headers |-> HashMapInsert(h, header.name, Append(get(h, header.name), header.value)),
     ret |-> is_some(HashMapGet(h, header.name))]

replace(h, header) ==
    [headers |-> HashMapInsert(h, header.name, <<header.value>>),
     ret |-> is_some(HashMapGet(h, header.name))]

\* HeaderMap::replace_raw
replace_raw(h, name, value) == replace(h, HeaderNew(name, value))

\* HeaderMap::replace_all
replace_all_Extend(h, name, values) == HashMapInsert(h, name, get(h, name) \o values)

replace_all(h, name, values) == HashMapInsert(h, name, values)

\* HeaderMap::add
FoldCase(name) == IF name = "X-Custom" THEN "x-custom" ELSE name

add_FoldCase(h, header) ==
    LET m == EntryOrInsert(h, FoldCase(header.name))
    IN  [m EXCEPT ![FoldCase(header.name)] = Append(@, header.value)]

add_Prepend(h, header) ==
    LET m == EntryOrInsert(h, header.name)
    IN  [m EXCEPT ![header.name] = <<header.value>> \o @]

add(h, header) ==
    LET m == EntryOrInsert(h, header.name)
    IN  [m EXCEPT ![header.name] = Append(@, header.value)]

\* HeaderMap::add_raw
add_raw(h, name, value) == add(h, HeaderNew(name, value))

\* Vec::append: moves every element of other to the end of self.
VecAppend(self, other) == [self |-> self \o other, other |-> <<>>]

\* HeaderMap::add_all: the map after the call and the caller's vector.
add_all_Clone(h, name, values) ==
    LET m == EntryOrInsert(h, name)
    IN  [headers |-> [m EXCEPT ![name] = @ \o values], values |-> values]

add_all(h, name, values) ==
    LET m == EntryOrInsert(h, name)
        r == VecAppend(m[name], values)
    IN  [headers |-> [m EXCEPT ![name] = r.self], values |-> r.other]

\* HeaderMap::remove
remove_Clear(h, name) == HashMapNew

remove_First(h, name) ==
    IF name \in DOMAIN h /\ Len(h[name]) > 1 THEN [h EXCEPT ![name] = Tail(@)]
    ELSE HashMapRemove(h, name)

remove(h, name) == HashMapRemove(h, name)

\* HeaderMap::remove_all: the map after the call and the returned vector,
\* for one iteration order of the old map.
remove_all_Drain(h, order) ==
    [headers |-> [n \in DOMAIN h |-> <<>>], removed |-> into_iter(h, order)]

remove_all_Reversed(h, order) ==
    LET all == into_iter(h, order)
    IN  [headers |-> HashMapNew, removed |-> [i \in 1..Len(all) |-> all[Len(all) + 1 - i]]]

remove_all(h, order) == [headers |-> HashMapNew, removed |-> into_iter(h, order)]

\* -------------------------------------------------------------- state ---

VARIABLES
    headers,     \* HeaderMap.headers
    prev,        \* HeaderMap.headers immediately before the last call
    op,          \* the last call made on the map
    arg_name,    \* the name (or header.name) the last call was given
    arg_values,  \* the value(s) the last call was given
    ret,         \* what the last replace / replace_raw returned
    values,      \* the caller's vector after the last add_all
    removed,     \* what the last remove_all returned
    yielded,     \* what the last read-only call gave back (one value: that value alone)
    header,      \* a Header built by Header::new
    text,        \* the Display rendering of header, once it was formatted
    base,        \* per name: get(name) after the last call on it that was not an add
    added        \* per name: the values given to add / add_raw since then, in call order

vars == <<headers, prev, op, arg_name, arg_values, ret, values, removed, yielded, header, text, base, added>>

\* The record of the last call and of what it gave back.
call == <<prev, op, arg_name, arg_values, ret, values, removed, yielded>>

\* The Header that is formatted and its rendering.
display == <<header, text>>

\* The log of the add calls made on each name.
log == <<base, added>>

\* HeaderMap::new()
Init ==
    /\ headers = HashMapNew
    /\ prev = HashMapNew
    /\ op = "new"
    /\ arg_name = ""
    /\ arg_values = <<>>
    /\ ret = FALSE
    /\ values = <<>>
    /\ removed = <<>>
    /\ yielded = <<>>
    /\ header = HeaderNew(<<>>, <<>>)
    /\ text = None
    /\ base = [n \in Names |-> <<>>]
    /\ added = [n \in Names |-> <<>>]

\* ------------------------------------------- the calls, on the map ------

DoAdd(name, value) ==
    /\ Len(get(headers, name)) < MaxLen
    /\ headers' = add(headers, HeaderNew(name, value))

DoAddRaw(name, value) ==
    /\ Len(get(headers, name)) < MaxLen
    /\ headers' = add_raw(headers, name, value)

DoAddAll(name, vs) ==
    /\ Len(get(headers, name)) + Len(vs) <= MaxLen
    /\ headers' = add_all(headers, name, vs).headers

DoReplace(name, value) == headers' = replace(headers, HeaderNew(name, value)).headers

DoReplaceRaw(name, value) == headers' = replace_raw(headers, name, value).headers

DoReplaceAll(name, vs) == headers' = replace_all(headers, name, vs)

DoRemove(name) == headers' = remove(headers, name)

DoRemoveAll(order) == headers' = remove_all(headers, order).headers

\* ------------------------- Spec: each call with the record of the call --

\* The record of a call: the map before it, its arguments, what it returned
\* (r), the caller's vector after it (vals) and the drained headers (rem).
Called(o, name, vs, r, vals, rem) ==
    /\ prev' = headers
    /\ op' = o
    /\ arg_name' = name
    /\ arg_values' = vs
    /\ ret' = r
    /\ values' = vals
    /\ removed' = rem
    /\ yielded' = <<>>
    /\ UNCHANGED <<log, display>>

Add ==
    \E name \in Names, value \in Values :
        /\ DoAdd(name, value)
        /\ Called("add", name, <<value>>, FALSE, <<>>, <<>>)

AddRaw ==
    \E name \in Names, value \in Values :
        /\ DoAddRaw(name, value)
        /\ Called("add_raw", name, <<value>>, FALSE, <<>>, <<>>)

AddAll ==
    \E name \in Names, vs \in VecsUpTo(MaxIn) :
        /\ DoAddAll(name, vs)
        /\ Called("add_all", name, vs, FALSE, add_all(headers, name, vs).values, <<>>)

Replace ==
    \E name \in Names, value \in Values :
        /\ DoReplace(name, value)
        /\ Called("replace", name, <<value>>, replace(headers, HeaderNew(name, value)).ret, <<>>, <<>>)

ReplaceRaw ==
    \E name \in Names, value \in Values :
        /\ DoReplaceRaw(name, value)
        /\ Called("replace_raw", name, <<value>>, replace_raw(headers, name, value).ret, <<>>, <<>>)

ReplaceAll ==
    \E name \in Names, vs \in VecsUpTo(MaxIn) :
        /\ DoReplaceAll(name, vs)
        /\ Called("replace_all", name, vs, FALSE, <<>>, <<>>)

Remove ==
    \E name \in Names :
        /\ DoRemove(name)
        /\ Called("remove", name, <<>>, FALSE, <<>>, <<>>)

RemoveAll ==
    \E order \in Orders(DOMAIN headers) :
        /\ DoRemoveAll(order)
        /\ Called("remove_all", "", <<>>, FALSE, <<>>, remove_all(headers, order).removed)

\* The record of a read-only call (&self): the map is left as it is.
Read(o, name, result) ==
    /\ headers' = headers
    /\ prev' = headers
    /\ op' = o
    /\ arg_name' = name
    /\ arg_values' = <<>>
    /\ ret' = FALSE
    /\ values' = <<>>
    /\ removed' = <<>>
    /\ yielded' = result
    /\ UNCHANGED <<log, display>>

Contains == \E name \in Names : Read("contains", name, <<contains(headers, name)>>)

LenOf == Read("len", "", <<len(headers)>>)

IsEmpty == Read("is_empty", "", <<is_empty(headers)>>)

Get == \E name \in Names : Read("get", name, get(headers, name))

GetOne == \E name \in Names : Read("get_one", name, get_one(headers, name))

Iter == \E order \in Orders(DOMAIN headers) : Read("iter", "", iter(headers, order))

Next ==
    \/ Add
    \/ AddRaw
    \/ AddAll
    \/ Replace
    \/ ReplaceRaw
    \/ ReplaceAll
    \/ Remove
    \/ RemoveAll
    \/ Contains
    \/ LenOf
    \/ IsEmpty
    \/ Get
    \/ GetOne
    \/ Iter

Spec == Init /\ [][Next]_vars

\* --------------- LogSpec: each call with the log of the adds per name ---

\* An add of `value` on `name` is appended to the log of that name.
LoggedAdd(name, value) ==
    /\ base' = base
    /\ added' = [added EXCEPT ![name] = Append(@, value)]
    /\ UNCHANGED <<call, display>>

\* Any other call on `name` restarts its log from what the name holds then.
LoggedOther(name) ==
    /\ base' = [base EXCEPT ![name] = get(headers', name)]
    /\ added' = [added EXCEPT ![name] = <<>>]
    /\ UNCHANGED <<call, display>>

LogAdd == \E name \in Names, value \in Values : DoAdd(name, value) /\ LoggedAdd(name, value)

LogAddRaw == \E name \in Names, value \in Values : DoAddRaw(name, value) /\ LoggedAdd(name, value)

LogAddAll == \E name \in Names, vs \in VecsUpTo(MaxIn) : DoAddAll(name, vs) /\ LoggedOther(name)

LogReplace == \E name \in Names, value \in Values : DoReplace(name, value) /\ LoggedOther(name)

LogReplaceRaw == \E name \in Names, value \in Values : DoReplaceRaw(name, value) /\ LoggedOther(name)

LogReplaceAll == \E name \in Names, vs \in VecsUpTo(MaxIn) : DoReplaceAll(name, vs) /\ LoggedOther(name)

LogRemove == \E name \in Names : DoRemove(name) /\ LoggedOther(name)

LogRemoveAll ==
    \E order \in Orders(DOMAIN headers) :
        /\ DoRemoveAll(order)
        /\ base' = [n \in Names |-> <<>>]
        /\ added' = [n \in Names |-> <<>>]
        /\ UNCHANGED <<call, display>>

LogNext ==
    \/ LogAdd
    \/ LogAddRaw
    \/ LogAddAll
    \/ LogReplace
    \/ LogReplaceRaw
    \/ LogReplaceAll
    \/ LogRemove
    \/ LogRemoveAll

LogSpec == Init /\ [][LogNext]_vars

\* ------------------- DisplaySpec: building and formatting one Header ---

\* A map as HeaderMap::new() leaves it and a Header as Header::new(name,
\* value) builds it, not formatted yet.
DisplayInit ==
    /\ headers = HashMapNew
    /\ prev = HashMapNew
    /\ op = "new"
    /\ arg_name = ""
    /\ arg_values = <<>>
    /\ ret = FALSE
    /\ values = <<>>
    /\ removed = <<>>
    /\ yielded = <<>>
    /\ base = [n \in Names |-> <<>>]
    /\ added = [n \in Names |-> <<>>]
    /\ \E name \in TextsUpTo(MaxText), value \in TextsUpTo(MaxText) :
           header = HeaderNew(name, value)
    /\ text = None

\* header.to_string()
Format ==
    /\ text = None
    /\ text' = Some(to_string(header))
    /\ header' = header
    /\ UNCHANGED <<headers, call, log>>

DisplayNext == Format

DisplaySpec == DisplayInit /\ [][DisplayNext]_vars

\* ------------------------------------------------------------ claims ---

\* The calls that replace by one header.
ReplaceOps == {"replace", "replace_raw"}

\* The calls that add one header.
AddOps == {"add", "add_raw"}

\* The values of the headers of hs named n, in the order of hs.
ValuesOf(hs, n) ==
    LET sel == SelectSeq(hs, LAMBDA x : x.name = n)
    IN  [i \in 1..Len(sel) |-> sel[i].value]

\* The headers of one name are contiguous in hs.
Grouped(hs) ==
    \A i, j, k \in 1..Len(hs) :
        (i < j /\ j < k /\ hs[i].name = hs[k].name) => hs[j].name = hs[i].name

\* The sum, over the names of S, of the number of values h stores for each.
RECURSIVE SumOfLens(_, _)
SumOfLens(h, S) ==
    IF S = {} THEN 0
    ELSE LET n == CHOOSE x \in S : TRUE
         IN  Len(h[n]) + SumOfLens(h, S \ {n})

\* C1: every name stored in the map has a non-empty value sequence, whatever
\* calls (add_all and replace_all with empty vectors included) led there.
C1_NoEmptyEntry == \A n \in DOMAIN headers : Len(headers[n]) >= 1

\* C2: after add / add_raw calls on a name with values v1..vk, with no other
\* call on that name in between, get(name) is what the name held before those
\* calls followed by v1..vk in call order, duplicates kept.
C2_AddFifo == \A n \in Names : get(headers, n) = base[n] \o added[n]

\* C2 witness: a name that held a value, then was given the same value twice.
C2_Witness ==
    \E n \in Names :
        /\ Len(base[n]) >= 1
        /\ Len(added[n]) >= 2
        /\ added[n][1] = added[n][2]

\* C3: after replace(h) / replace_raw(name, value), get(name) yields exactly
\* the one new value and get_one(name) is that value, whatever the name held.
C3_ReplaceSingle ==
    op \in ReplaceOps =>
        /\ Len(get(headers, arg_name)) = 1
        /\ get(headers, arg_name) = arg_values
        /\ get_one(headers, arg_name) = Some(arg_values[1])

\* C3 witness: a replace of a name that held several values, by another value.
C3_Witness ==
    /\ op \in ReplaceOps
    /\ Len(get(prev, arg_name)) >= 2
    /\ \A i \in 1..Len(get(prev, arg_name)) : get(prev, arg_name)[i] # arg_values[1]

\* C4: replace / replace_raw returns true if and only if the map held at
\* least one value for the name immediately before the call.
C4_ReplaceReturn ==
    op \in ReplaceOps => (ret <=> Len(get(prev, arg_name)) >= 1)

\* C5: len() is the total number of stored values (the sum of the lengths of
\* the value sequences, not the number of names): add changes it by 1, replace
\* of a name holding k values by 1 - k, remove of a name holding k by -k.
C5_LenCountsValues ==
    /\ len(headers) = SumOfLens(headers, DOMAIN headers)
    /\ op \in AddOps => len(headers) = len(prev) + 1
    /\ op \in ReplaceOps => len(headers) = len(prev) + 1 - Len(get(prev, arg_name))
    /\ op = "remove" => len(headers) = len(prev) - Len(get(prev, arg_name))

\* C5 witness: a remove of a name holding several values from a map that
\* still holds several values of the other name afterwards.
C5_Witness ==
    /\ op = "remove"
    /\ Len(get(prev, arg_name)) >= 2
    /\ len(headers) >= 2

\* C6: after remove(name), contains(name) is false, get(name) is empty and
\* get_one(name) is absent, however many values the name held.
C6_RemoveDeletes ==
    op = "remove" =>
        /\ ~contains(headers, arg_name)
        /\ get(headers, arg_name) = <<>>
        /\ get_one(headers, arg_name) = None

\* C6 witness: a remove of a name that held several values.
C6_Witness == op = "remove" /\ Len(get(prev, arg_name)) >= 2

\* C7: remove_all() returns Headers that, regrouped by name, are what the map
\* held before (for each name the values get(name) yielded, in FIFO order and
\* contiguous, and nothing else); afterwards is_empty() holds and len() is 0.
C7_RemoveAllDrains ==
    op = "remove_all" =>
        /\ \A i \in 1..Len(removed) : removed[i].name \in Names
        /\ \A n \in Names : ValuesOf(removed, n) = get(prev, n)
        /\ Grouped(removed)
        /\ Len(removed) = len(prev)
        /\ is_empty(headers)
        /\ len(headers) = 0

\* C7 witness: a drain of a map holding both names, one with two different
\* values, whose iteration started with the name "x-custom".
C7_Witness ==
    /\ op = "remove_all"
    /\ Len(get(prev, "X-Custom")) >= 2
    /\ get(prev, "X-Custom")[1] # get(prev, "X-Custom")[2]
    /\ Len(get(prev, "x-custom")) >= 1
    /\ removed[1].name = "x-custom"

\* C8: after add_all(name, vs), get(name) is what the name held before
\* followed by vs in order, and the caller's vector is empty.
C8_AddAllAppends ==
    op = "add_all" =>
        /\ get(headers, arg_name) = get(prev, arg_name) \o arg_values
        /\ values = <<>>

\* C8 witness: an add_all of two different values to a name holding a value.
C8_Witness ==
    /\ op = "add_all"
    /\ Len(get(prev, arg_name)) >= 1
    /\ Len(arg_values) = 2
    /\ arg_values[1] # arg_values[2]

\* C9: is_empty() is true exactly when no header is stored, that is when
\* len() = 0 and iteration yields no Header.
C9_IsEmptyIffNoHeaders ==
    is_empty(headers) <=>
        /\ len(headers) = 0
        /\ \A o \in Orders(DOMAIN headers) : iter(headers, o) = <<>>

\* C10: replace of a name holding no header leaves the map as add of the same
\* header would, and reports false.
C10_ReplaceAbsentIsAdd ==
    (op \in ReplaceOps /\ get(prev, arg_name) = <<>>) =>
        /\ headers = add(prev, HeaderNew(arg_name, arg_values[1]))
        /\ ret = FALSE

\* The calls that change the values of one name.
SingleNameOps == AddOps \cup ReplaceOps \cup {"add_all", "replace_all", "remove"}

\* The read-only calls.
ReadOps == {"contains", "len", "is_empty", "get", "get_one", "iter"}

\* C11: remove(n) of a name absent from the map (not stored) changes nothing:
\* names, value sequences, len() and is_empty() are as before; and a second
\* remove(n) after any remove(n) changes nothing either.
C11_RemoveAbsentNoOp ==
    op = "remove" =>
        /\ ~contains(prev, arg_name) =>
               /\ headers = prev
               /\ DOMAIN headers = DOMAIN prev
               /\ \A n \in Names : get(headers, n) = get(prev, n)
               /\ len(headers) = len(prev)
               /\ is_empty(headers) = is_empty(prev)
        /\ remove(headers, arg_name) = headers

\* C11 witness: a remove of a name that is not stored, from a map that holds
\* several values of the other name.
C11_Witness ==
    /\ op = "remove"
    /\ ~contains(prev, arg_name)
    /\ len(prev) >= 2

\* C12: contains(n) is true if and only if get(n) yields at least one value,
\* equivalently get_one(n) is present.
C12_ContainsIffHeader ==
    \A n \in Names :
        /\ contains(headers, n) <=> Len(get(headers, n)) >= 1
        /\ contains(headers, n) <=> is_some(get_one(headers, n))

\* C13: after replace_all(n, vs), get(n) yields exactly the elements of vs in
\* order; nothing that n held before survives.
C13_ReplaceAllInstalls ==
    op = "replace_all" =>
        /\ get(headers, arg_name) = arg_values
        /\ HashMapGet(headers, arg_name) = Some(arg_values)

\* C13 witness: a replace_all, by two different values, of a name holding
\* several values of which the first differs from the first new one.
C13_Witness ==
    /\ op = "replace_all"
    /\ Len(get(prev, arg_name)) >= 2
    /\ Len(arg_values) = 2
    /\ arg_values[1] # arg_values[2]
    /\ get(prev, arg_name)[1] # arg_values[1]

\* C14: iter() yields exactly len() Headers that, regrouped by name, are the
\* stored values of each name in FIFO order and contiguous; iter and the
\* other read-only calls leave the map unchanged.
C14_IterFaithful ==
    /\ op \in ReadOps => headers = prev
    /\ op = "iter" =>
           /\ Len(yielded) = len(headers)
           /\ \A i \in 1..Len(yielded) : yielded[i].name \in DOMAIN headers
           /\ \A n \in Names : ValuesOf(yielded, n) = get(headers, n)
           /\ Grouped(yielded)

\* C14 witness: an iteration, starting with "x-custom", of a map holding both
\* names, one of them with two different values.
C14_Witness ==
    /\ op = "iter"
    /\ Len(get(headers, "X-Custom")) >= 2
    /\ get(headers, "X-Custom")[1] # get(headers, "X-Custom")[2]
    /\ Len(get(headers, "x-custom")) >= 1
    /\ yielded[1].name = "x-custom"

\* C15: the rendering of Header::new(name, value) is the name, then a colon
\* and one space, then the value, and nothing else: every character of the
\* name and of the value is kept as it is.
C15_DisplayFormat ==
    is_some(text) =>
        LET t == text[1]
            n == header.name
            v == header.value
        IN  /\ Len(t) = Len(n) + 2 + Len(v)
            /\ \A i \in 1..Len(n) : t[i] = n[i]
            /\ t[Len(n) + 1] = ":"
            /\ t[Len(n) + 2] = " "
            /\ \A i \in 1..Len(v) : t[Len(n) + 2 + i] = v[i]

\* C15 witness: a formatted header whose name mixes letter cases and whose
\* value holds a colon and a character wire formats escape.
C15_Witness ==
    /\ is_some(text)
    /\ header.name = <<"A", "a">>
    /\ header.value = <<":", "%">>

\* C16: get_one(n) is the first element of what get(n) yields when that is
\* not empty, and is absent exactly when get(n) yields nothing.
C16_GetOneIsFirst ==
    /\ \A n \in Names :
           IF get(headers, n) # <<>>
           THEN get_one(headers, n) = Some(Head(get(headers, n)))
           ELSE get_one(headers, n) = None
    /\ op = "get_one" =>
           yielded = IF get(headers, arg_name) = <<>> THEN None
                     ELSE Some(get(headers, arg_name)[1])

\* C16 witness: a get_one of a name whose first and last values differ.
C16_Witness ==
    /\ op = "get_one"
    /\ Len(get(headers, arg_name)) >= 2
    /\ get(headers, arg_name)[1] # get(headers, arg_name)[Len(get(headers, arg_name))]

\* C17: a mutation of one name leaves every other name as it was (stored or
\* not, same values, same order); names differing only in letter case are
\* other names.
C17_OtherNamesUntouched ==
    op \in SingleNameOps =>
        \A m \in Names \ {arg_name} :
            /\ HashMapGet(headers, m) = HashMapGet(prev, m)
            /\ get(headers, m) = get(prev, m)

\* C17 witness: an add on "X-Custom" while "x-custom" holds several values.
C17_Witness ==
    /\ op \in AddOps
    /\ arg_name = "X-Custom"
    /\ Len(get(prev, "x-custom")) >= 2

\* C18: after remove_all() the map is as HeaderMap::new() leaves it: no name
\* is contained, get is empty for every name, len() is 0, is_empty() holds;
\* the state being the same, every later call behaves as on a fresh map.
C18_DrainedIsNew ==
    op = "remove_all" =>
        /\ headers = HashMapNew
        /\ \A n \in Names :
               /\ ~contains(headers, n)
               /\ get(headers, n) = <<>>
               /\ get_one(headers, n) = None
        /\ len(headers) = 0
        /\ is_empty(headers)

\* C18 witness: a drain of a map that held values of both names.
C18_Witness ==
    /\ op = "remove_all"
    /\ \A n \in Names : Len(get(prev, n)) >= 1
    /\ Len(removed) >= 3

=============================================================================
